---- MODULE Spec2Model ----
(***************************************************************************)
(* Cube3D occupancy server (crates/robocube/server/server.py), with the    *)
(* model loading of the XCube and Trellis servers (crates/tools).          *)
(*                                                                         *)
(* The model follows one /generate_occupancy request from the handler on   *)
(* the event loop through the worker thread that runs                      *)
(* generate_occupancy_field: token/latent generation, grid construction,   *)
(* the batched decoder loop, thresholding, index decoding, colouring and   *)
(* result assembly.                                                        *)
(*                                                                         *)
(* Specifications                                                          *)
(*   Spec        the service on small grids, decoder batch size BatchSize  *)
(*   SpecChunks  the same with every batch size in 1..MaxBatch             *)
(*   SpecGrid    handler and grid construction on grid_resolution 8..256   *)
(*   SpecIndex   thresholding and index decoding on grids of any axis sizes*)
(*   SpecColor   colouring of fields with several logit levels             *)
(*   SpecTwice   the service with a client that repeats a request          *)
(*   SpecConcurrent  two requests served at the same time in worker threads*)
(*   SpecHealth  the service with /health queries                          *)
(*   SpecLoopFair  the decoder loop with a worker thread that keeps running*)
(*   SpecRadial  radial colouring on the grids of grid_resolution 1 and 2  *)
(*   SpecLoad    model loading at startup in the three servers             *)
(*   SpecReload  the service when the startup event occurs again           *)
(*                                                                         *)
(* Conventions                                                             *)
(*   - Optional values are sequences of length 0 (None) or 1 (a value),    *)
(*     so that None and the empty list stay different values.              *)
(*   - A grid point is named by its flat index 0..num_points-1 in the      *)
(*     point sequence returned by generate_dense_grid_points.              *)
(*   - Logits and thresholds are integers; only their order and their      *)
(*     differences are used by the code.                                   *)
(*   - Colour channels are fixed-point numbers in units of 1/Scale.        *)
(***************************************************************************)
EXTENDS Integers, Sequences, FiniteSets, TLC

VARIABLES
    engine,         \* state.engine: "None" or "Engine"
    loading,        \* state.loading
    error,          \* state.error: "None" or the failure message
    load_task,      \* the task created by startup_event: "none", "pending", "done"
    request,        \* Optional OccupancyRequest being served
    response,       \* Optional HTTP response to the last request
    pc,             \* position of the request: "idle", "gpt", "grid", "query"
    latents,        \* latent code produced by decode_indices
    grid_size,      \* <<nx, ny, nz>> grid points per axis
    num_points,     \* grid_points.shape[0]
    batch_size,     \* local batch_size of the decoder loop
    i,              \* loop variable of the decoder loop
    all_logits,     \* list of per-chunk logit sequences
    decoder_calls,  \* history: every call of state.shape_model.query
    first_run,      \* history: Optional inputs and result of a run kept by the client
    health_response,\* Optional HealthResponse of the last /health query
    threads,        \* the worker threads of concurrent requests (asyncio.to_thread)
    rng,            \* state of the process-wide random generator (torch, numpy)
    decoder_log,    \* history: the thread of every decoder call, in call order
    xcube,          \* ServerState of the XCube server
    trellis,        \* ServerState of the Trellis server
    startups        \* history: state.engine at every startup event after the first

serverVars == <<engine, loading, error, load_task>>
pipeVars   == <<latents, grid_size, num_points, batch_size, i, all_logits, decoder_calls>>
vars       == <<engine, loading, error, load_task, request, response, pc,
                latents, grid_size, num_points, batch_size, i, all_logits, decoder_calls,
                first_run, health_response, threads, rng, decoder_log, xcube, trellis, startups>>
extVars    == <<health_response, threads, rng, decoder_log, xcube, trellis, startups>>
histVars   == <<first_run, health_response, threads, rng, decoder_log, xcube, trellis, startups>>

(***************************************************************************)
(* Bounds of the model                                                     *)
(***************************************************************************)
\* Largest grid_resolution of a request whose grid is run through the decoder
\* (the service admits 8..256; the data path is explored on 1..MaxResolution,
\* the admitted range itself under SpecGrid).
MaxResolution == 2
\* Decoder batch size (100000 in the service), scaled to the small grids.
BatchSize == 3
\* A latent code decodes to a field that differs from its background level
\* in at most MaxHot grid points, taken among the first HotPoints points (the
\* points of the smallest grid).
MaxHot == 1
\* SpecIndex: axis sizes are 1..MaxAxis, independently per axis.
MaxAxis == 3
\* SpecChunks: the decoder loop runs with any batch size in 1..MaxBatch.
MaxBatch == 4
\* SpecColor: a field differs from its background level in at most
\* MaxColourHot of the first HotPoints grid points.
MaxColourHot == 2
HotPoints == 2 * 2 * 2

Scale == 10 * 100

Min(a, b) == IF a < b THEN a ELSE b
Max(a, b) == IF a > b THEN a ELSE b

None == <<>>
Some(x) == <<x>>
IsNone(o) == Len(o) = 0
Get(o) == o[1]

(***************************************************************************)
(* Input domains                                                           *)
(***************************************************************************)
\* grid_resolution: int = Field(64, ge=8, le=256)
grid_resolution_ge == 8
grid_resolution_le == 256

Resolutions == 1..MaxResolution
\* logits and thresholds: every order between a threshold, the background
\* level and the level of the hot points occurs
LogitVals   == {0, 1, 2}
Thresholds  == {0, 1}
\* color_mode: None, the empty string, the four policies, an unknown name
ColorModes  == {None, Some(""), Some("solid"), Some("height"), Some("radial"),
                Some("density"), Some("rainbow")}
\* base_color: None, an RGB list (channels in units of 1/Scale), or a list
\* that is not an RGB triple (List[float] has no length constraint)
BaseColors  == {None, Some(<<Scale, Scale \div 2, 0>>), Some(<<Scale, Scale>>)}

Requests ==
    [grid_resolution : Resolutions,
     threshold       : Thresholds,
     include_logits  : BOOLEAN,
     color_mode      : ColorModes,
     base_color      : BaseColors]

\* Subsets of S with at most k elements
RECURSIVE SmallSubsets(_, _)
SmallSubsets(S, k) ==
    IF k = 0 THEN {{}}
    ELSE LET prev == SmallSubsets(S, k - 1)
         IN  prev \cup {T \cup {x} : T \in prev, x \in S}

\* A latent code is modelled by the field it decodes to: a background level
\* bg, and the levels hot[p] of the points p that differ from it.
Latents ==
    {[bg |-> b, hot |-> [p \in h |-> v]] :
        b \in LogitVals, v \in LogitVals, h \in SmallSubsets(0..(HotPoints - 1), MaxHot)}

\* Only one code per field: a hot point differs from the background
LatentCodes == {l \in Latents : \A p \in DOMAIN l.hot : l.hot[p] # l.bg}

\* state.shape_model.query on one point: one logit per point, a function of
\* the point and the latent code.
Decoder(l, p) == IF p \in DOMAIN l.hot THEN l.hot[p] ELSE l.bg

(***************************************************************************)
(* Pure functions of the pipeline                                          *)
(***************************************************************************)
\* Python's a & b on non-negative integers
RECURSIVE BitAnd(_, _)
BitAnd(a, b) ==
    IF a = 0 \/ b = 0 THEN 0
    ELSE (a % 2) * (b % 2) + 2 * BitAnd(a \div 2, b \div 2)

\* a check that admits every even resolution
PowerOfTwoCheckEven(r) == r % 2 = 0

\* request.grid_resolution & (request.grid_resolution - 1) == 0, for r >= 1
PowerOfTwoCheck(r) == BitAnd(r, r - 1) = 0

\* np.log2 on the values that pass PowerOfTwoCheck, where it is exact
RECURSIVE Log2(_)
Log2(r) == IF r <= 1 THEN 0 ELSE 1 + Log2(r \div 2)

RECURSIVE Exp2(_)
Exp2(e) == IF e = 0 THEN 1 ELSE 2 * Exp2(e - 1)

\* generate_dense_grid_points(bbox_min, bbox_max, resolution_base, 'ij'):
\* n = 2^resolution_base + 1 points per axis, n^3 points in all
GridPointsPerAxis(resolution_base) == Exp2(resolution_base) + 1
DenseGridSize(resolution_base) ==
    LET n == GridPointsPerAxis(resolution_base) IN <<n, n, n>>
NumPoints(gs) == gs[1] * gs[2] * gs[3]

\* a slice that is not clipped to the length
SliceStopUnclipped(lo, hi, n) == hi

\* grid_points[lo:hi] on the point sequence 0, 1, ..., n-1 (Python slicing
\* clips hi to the length)
SliceStop(lo, hi, n) == Min(hi, n)
BatchPoints(lo, hi, n) ==
    LET stop == SliceStop(lo, hi, n)
    IN  [k \in 1..(stop - lo) |-> lo + k - 1]

\* state.shape_model.query(batch, latents): one logit per point, in order
Query(batch, l) == [k \in 1..Len(batch) |-> Decoder(l, batch[k])]

\* a concatenation that puts each later chunk in front
RECURSIVE CatReversed(_)
CatReversed(chunks) ==
    IF chunks = <<>> THEN <<>> ELSE CatReversed(Tail(chunks)) \o Head(chunks)

\* torch.cat(all_logits, dim=0)
RECURSIVE Cat(_)
Cat(chunks) == IF chunks = <<>> THEN <<>> ELSE Head(chunks) \o Cat(Tail(chunks))

\* a threshold test with >= in place of >
RECURSIVE WhereAtLeast(_, _, _)
WhereAtLeast(logits, threshold, from) ==
    IF from >= Len(logits) THEN <<>>
    ELSE IF logits[from + 1] >= threshold
         THEN <<from>> \o WhereAtLeast(logits, threshold, from + 1)
         ELSE WhereAtLeast(logits, threshold, from + 1)
OccupiedIndicesAtLeast(logits, threshold) == WhereAtLeast(logits, threshold, 0)

\* np.where(logits_np > threshold)[0]: the indices, ascending
RECURSIVE WhereAbove(_, _, _)
WhereAbove(logits, threshold, from) ==
    IF from >= Len(logits) THEN <<>>
    ELSE IF logits[from + 1] > threshold
         THEN <<from>> \o WhereAbove(logits, threshold, from + 1)
         ELSE WhereAbove(logits, threshold, from + 1)
OccupiedIndices(logits, threshold) == WhereAbove(logits, threshold, 0)

\* a decode that reduces z modulo the wrong axis
DecodeIndexWrongAxis(idx, ny, nz) == <<idx \div (ny * nz), idx % ny, (idx \div ny) % ny>>
\* flat index -> [x, y, z]: y = idx % ny, z = (idx // ny) % nz, x = idx // (ny*nz)
DecodeIndex(idx, ny, nz) == <<idx \div (ny * nz), idx % ny, (idx \div ny) % nz>>

\* the flattening formula the decode inverts: x*(ny*nz) + z*ny + y
EncodeVoxel(v, ny, nz) == v[1] * (ny * nz) + v[3] * ny + v[2]

\* a decode loop that builds the list back to front
OccupiedVoxelsReversed(occupied_indices, ny, nz) ==
    [k \in 1..Len(occupied_indices) |->
        DecodeIndex(occupied_indices[Len(occupied_indices) + 1 - k], ny, nz)]

OccupiedVoxels(occupied_indices, ny, nz) ==
    [k \in 1..Len(occupied_indices) |-> DecodeIndex(occupied_indices[k], ny, nz)]

\* the point count reported as the resolution
ActualResolutionPoints(gs) == gs[1]

\* actual_resolution = grid_size[0] - 1
ActualResolution(gs) == gs[1] - 1

(***************************************************************************)
(* generate_voxel_colors                                                   *)
(***************************************************************************)
\* largest s with s*s <= n
RECURSIVE IsqrtIter(_, _, _)
IsqrtIter(n, lo, hi) ==
    IF lo >= hi THEN lo
    ELSE LET mid == (lo + hi + 1) \div 2
         IN  IF mid * mid <= n THEN IsqrtIter(n, mid, hi) ELSE IsqrtIter(n, lo, mid - 1)
\* (the root of a 32-bit integer is at most 46340)
Isqrt(n) == IsqrtIter(n, 0, Min(n, 46340))

RECURSIVE SeqMin(_)
SeqMin(s) == IF Len(s) = 1 THEN s[1] ELSE Min(s[1], SeqMin(Tail(s)))
RECURSIVE SeqMax(_)
SeqMax(s) == IF Len(s) = 1 THEN s[1] ELSE Max(s[1], SeqMax(Tail(s)))

\* base_color or (0.8, 0.8, 0.8)
DefaultBaseColor == <<(8 * Scale) \div 10, (8 * Scale) \div 10, (8 * Scale) \div 10>>
BaseColorOrDefault(base_color) ==
    IF IsNone(base_color) THEN DefaultBaseColor ELSE Get(base_color)

\* 'solid' and the fallback for an unknown mode
SolidColors(voxels, base) == [k \in 1..Len(voxels) |-> base]

\* a gradient over y - y_min that is neither normalised nor clamped
HeightChannelUnnormalised(b, y, y_min, y_range) == (b * (1 + (y - y_min))) \div 2

\* 'height': base * (0.5 + 0.5*t), t = (y - y_min) / max(y_max - y_min, 1)
HeightChannel(b, y, y_min, y_range) ==
    Min(Scale, (b * (y_range + (y - y_min))) \div (2 * y_range))
\* a gradient measured from y = 0 instead of the lowest occupied voxel
HeightColorsFromZero(voxels, base) ==
    LET y_coords == [k \in 1..Len(voxels) |-> voxels[k][2]]
        y_range  == Max(SeqMax(y_coords), 1)
    IN  [k \in 1..Len(voxels) |->
            [c \in 1..3 |-> HeightChannel(base[c], voxels[k][2], 0, y_range)]]

HeightColors(voxels, base) ==
    LET y_coords == [k \in 1..Len(voxels) |-> voxels[k][2]]
        y_min    == SeqMin(y_coords)
        y_max    == SeqMax(y_coords)
        y_range  == Max(y_max - y_min, 1)
    IN  [k \in 1..Len(voxels) |->
            [c \in 1..3 |-> HeightChannel(base[c], voxels[k][2], y_min, y_range)]]

\* the distance to the grid point (0, 0, 0)
RadialDistFromOrigin(v, nx, ny, nz) ==
    Isqrt((v[1] * v[1] + v[2] * v[2] + v[3] * v[3]) * Scale * Scale)

\* the distance to the centre of the index range, ((nx-1)/2, (ny-1)/2, (nz-1)/2)
RadialDistIndexCentre(v, nx, ny, nz) ==
    LET dx2 == 2 * v[1] - (nx - 1)
        dy2 == 2 * v[2] - (ny - 1)
        dz2 == 2 * v[3] - (nz - 1)
    IN  Isqrt((dx2 * dx2 + dy2 * dy2 + dz2 * dz2) * Scale * Scale) \div 2

\* 'radial': distance to (nx/2, ny/2, nz/2) in units of 1/Scale
RadialDist(v, nx, ny, nz) ==
    LET dx2 == 2 * v[1] - nx
        dy2 == 2 * v[2] - ny
        dz2 == 2 * v[3] - nz
    IN  Isqrt((dx2 * dx2 + dy2 * dy2 + dz2 * dz2) * Scale * Scale) \div 2
\* base * (1.0 - 0.4*t), t = dist / max(max_dist, 1.0)
RadialChannel(b, dist, max_dist) ==
    LET t == (dist * Scale) \div max_dist
    IN  Max(0, (b * (10 * Scale - 4 * t)) \div (10 * Scale))
RadialColors(voxels, nx, ny, nz, base) ==
    LET dists    == [k \in 1..Len(voxels) |-> RadialDist(voxels[k], nx, ny, nz)]
        max_dist == Max(SeqMax(dists), Scale)
    IN  [k \in 1..Len(voxels) |->
            [c \in 1..3 |-> RadialChannel(base[c], dists[k], max_dist)]]

\* 'density': base * (0.4 + 0.6*t), t = (logit - min) / max(max - min, 1e-6);
\* integer logits differ by 0 or by at least 1
DensityChannel(b, logit, logit_min, logit_max) ==
    IF logit_max = logit_min THEN (b * 4) \div 10
    ELSE Min(Scale, (b * (4 * (logit_max - logit_min) + 6 * (logit - logit_min)))
                        \div (10 * (logit_max - logit_min)))
\* the logits taken by position in the voxel list, not by occupied index
OccupiedLogitsByPosition(logits, occupied_indices) ==
    [k \in 1..Len(occupied_indices) |-> logits[k]]

\* occupied_logits = logits_np[occupied_indices]
OccupiedLogits(logits, occupied_indices) ==
    [k \in 1..Len(occupied_indices) |-> logits[occupied_indices[k] + 1]]
\* a normalisation by the extremes of the whole field
DensityColorsWholeField(voxels, logits, occupied_indices, base) ==
    LET occupied_logits == OccupiedLogits(logits, occupied_indices)
        logit_min       == SeqMin(logits)
        logit_max       == SeqMax(logits)
    IN  [k \in 1..Len(voxels) |->
            [c \in 1..3 |-> DensityChannel(base[c], occupied_logits[k], logit_min, logit_max)]]

DensityColors(voxels, logits, occupied_indices, base) ==
    LET occupied_logits == OccupiedLogits(logits, occupied_indices)
        logit_min       == SeqMin(occupied_logits)
        logit_max       == SeqMax(occupied_logits)
    IN  [k \in 1..Len(voxels) |->
            [c \in 1..3 |-> DensityChannel(base[c], occupied_logits[k], logit_min, logit_max)]]

\* a colouring without the fallback: no colours for an unknown mode name
generate_voxel_colors_strict(voxels, logits, occupied_indices, nx, ny, nz, color_mode, base) ==
    IF voxels = <<>> THEN <<>>
    ELSE IF color_mode = "solid"   THEN SolidColors(voxels, base)
    ELSE IF color_mode = "height"  THEN HeightColors(voxels, base)
    ELSE IF color_mode = "radial"  THEN RadialColors(voxels, nx, ny, nz, base)
    ELSE IF color_mode = "density" THEN DensityColors(voxels, logits, occupied_indices, base)
    ELSE <<>>

generate_voxel_colors(voxels, logits, occupied_indices, nx, ny, nz, color_mode, base) ==
    IF voxels = <<>> THEN <<>>
    ELSE IF color_mode = "solid"   THEN SolidColors(voxels, base)
    ELSE IF color_mode = "height"  THEN HeightColors(voxels, base)
    ELSE IF color_mode = "radial"  THEN RadialColors(voxels, nx, ny, nz, base)
    ELSE IF color_mode = "density" THEN DensityColors(voxels, logits, occupied_indices, base)
    ELSE SolidColors(voxels, base)

\* colours whenever a mode was requested, also for an empty voxel list
VoxelColorsForEmpty(voxels, logits, occupied_indices, gs, color_mode, base_color) ==
    IF ~IsNone(color_mode) /\ Get(color_mode) # ""
    THEN Some(generate_voxel_colors(voxels, logits, occupied_indices,
                                    gs[1], gs[2], gs[3],
                                    Get(color_mode), BaseColorOrDefault(base_color)))
    ELSE None

\* Step 5 of generate_occupancy_field: colours only when a mode was requested
\* (a non-empty string) and some voxel is occupied
VoxelColors(voxels, logits, occupied_indices, gs, color_mode, base_color) ==
    IF ~IsNone(color_mode) /\ Get(color_mode) # "" /\ voxels # <<>>
    THEN Some(generate_voxel_colors(voxels, logits, occupied_indices,
                                    gs[1], gs[2], gs[3],
                                    Get(color_mode), BaseColorOrDefault(base_color)))
    ELSE None

\* base_r, base_g, base_b = base_color raises unless base_color has three
\* elements; it is reached when colours are generated for a non-empty list
ColoursRaise(req, gs, chunks) ==
    LET occupied_indices == OccupiedIndices(Cat(chunks), req.threshold)
    IN  /\ ~IsNone(req.color_mode)
        /\ Get(req.color_mode) # ""
        /\ occupied_indices # <<>>
        /\ Len(BaseColorOrDefault(req.base_color)) # 3

\* a result that carries the logits of the occupied points only
OccupancyResultOccupiedLogits(req, gs, chunks) ==
    LET logits_np        == Cat(chunks)
        occupied_indices == OccupiedIndices(logits_np, req.threshold)
        occupied_voxels  == OccupiedVoxels(occupied_indices, gs[2], gs[3])
    IN  [resolution      |-> ActualResolution(gs),
         occupied_voxels |-> occupied_voxels,
         voxel_colors    |-> VoxelColors(occupied_voxels, logits_np, occupied_indices,
                                         gs, req.color_mode, req.base_color),
         logits          |-> IF req.include_logits
                             THEN Some(OccupiedLogits(logits_np, occupied_indices))
                             ELSE None]

\* Steps 4 and 5 and the OccupancyResult of generate_occupancy_field
OccupancyResult(req, gs, chunks) ==
    LET logits_np        == Cat(chunks)
        occupied_indices == OccupiedIndices(logits_np, req.threshold)
        occupied_voxels  == OccupiedVoxels(occupied_indices, gs[2], gs[3])
    IN  [resolution      |-> ActualResolution(gs),
         occupied_voxels |-> occupied_voxels,
         voxel_colors    |-> VoxelColors(occupied_voxels, logits_np, occupied_indices,
                                         gs, req.color_mode, req.base_color),
         logits          |-> IF req.include_logits THEN Some(logits_np) ELSE None]

(***************************************************************************)
(* State machine                                                           *)
(***************************************************************************)
models_loaded == engine # "None"

NoLatents == [bg |-> 0, hot |-> <<>>]

\* a worker thread of asyncio.to_thread that runs no request
IdleThread ==
    [pc |-> "idle", seed |-> None, top_p |-> None, latents |-> NoLatents,
     i |-> 0, all_logits |-> <<>>]

\* ServerState.__init__ of the XCube server
XCubeServerState ==
    [coarse_model |-> "None", fine_model |-> "None", text_encoder |-> "None",
     clip_preprocess_fn |-> "None", loading |-> FALSE, error |-> "None",
     load_task |-> "none"]

\* ServerState.__init__ of the Trellis server
TrellisServerState ==
    [pipeline |-> "None", loading |-> FALSE, error |-> "None", load_task |-> "none"]

\* no /health query answered, no request in a worker thread, the other
\* servers constructed
ExtInit ==
    /\ health_response = None
    /\ threads = [w \in {1, 2} |-> IdleThread]
    /\ rng = 0
    /\ decoder_log = <<>>
    /\ xcube = XCubeServerState
    /\ trellis = TrellisServerState
    /\ startups = <<>>

\* the locals of generate_occupancy_field before the function has run
PipeInit ==
    /\ latents = NoLatents
    /\ grid_size = <<0, 0, 0>>
    /\ num_points = 0
    /\ batch_size = 0
    /\ i = 0
    /\ all_logits = <<>>
    /\ decoder_calls = <<>>

\* ServerState.__init__, no request received
Init ==
    /\ engine = "None"
    /\ loading = FALSE
    /\ error = "None"
    /\ load_task = "none"
    /\ request = None
    /\ response = None
    /\ pc = "idle"
    /\ PipeInit
    /\ first_run = None
    /\ ExtInit

\* a response: the status, the detail (a message and the value formatted into
\* it) and the optional OccupancyResult
HttpError(status, msg, arg) ==
    Some([status |-> status, detail |-> <<msg, arg>>, result |-> None])
HttpOk(result) == Some([status |-> 200, detail |-> <<"", "">>, result |-> Some(result)])

\* startup_event: asyncio.create_task(load_models())
startup_event ==
    /\ load_task = "none"
    /\ load_task' = "pending"
    /\ UNCHANGED <<engine, loading, error, request, response, pc>>
    /\ UNCHANGED pipeVars
    /\ UNCHANGED histVars

\* a load_models that awaits inside its try block: the first step sets the
\* flag and suspends, a later step finishes the load
load_models_suspending ==
    /\ load_task = "pending"
    /\ IF ~loading
       THEN /\ loading' = TRUE
            /\ UNCHANGED <<engine, error, load_task>>
       ELSE /\ loading' = FALSE
            /\ load_task' = "done"
            /\ \/ /\ engine' = "Engine"
                  /\ error' = "None"
               \/ /\ engine' = "None"
                  /\ error' = "load failed"
    /\ UNCHANGED <<request, response, pc>>
    /\ UNCHANGED pipeVars
    /\ UNCHANGED histVars

\* a load_models without the guard of its first statement
load_models_unguarded ==
    /\ load_task = "pending"
    /\ load_task' = "done"
    /\ loading' = FALSE
    /\ \/ /\ engine' = "Engine"
          /\ error' = "None"
       \/ /\ engine' = "None"
          /\ error' = "load failed"
    /\ UNCHANGED <<request, response, pc>>
    /\ UNCHANGED pipeVars
    /\ UNCHANGED histVars

\* load_models: runs without an await, from the guard to the finally clause
load_models ==
    /\ load_task = "pending"
    /\ load_task' = "done"
    /\ IF loading \/ models_loaded
       THEN UNCHANGED <<engine, loading, error>>
       ELSE /\ loading' = FALSE
            /\ \/ /\ engine' = "Engine"
                  /\ error' = "None"
               \/ /\ engine' = "None"
                  /\ error' = "load failed"
    /\ UNCHANGED <<request, response, pc>>
    /\ UNCHANGED pipeVars
    /\ UNCHANGED histVars

\* the locals of a new call of generate_occupancy_field
PipeReset ==
    /\ latents' = NoLatents
    /\ grid_size' = <<0, 0, 0>>
    /\ num_points' = 0
    /\ batch_size' = 0
    /\ i' = 0
    /\ all_logits' = <<>>
    /\ decoder_calls' = <<>>

\* a handler that validates the resolution before it looks at the models
generate_occupancy_validate_first(req) ==
    /\ load_task # "none"
    /\ pc = "idle"
    /\ IsNone(response)
    /\ request' = Some(req)
    /\ PipeReset
    /\ IF ~PowerOfTwoCheck(req.grid_resolution)
       THEN /\ response' = HttpError(400, "grid_resolution must be a power of 2", "")
            /\ pc' = "idle"
       ELSE IF ~models_loaded
       THEN /\ response' = HttpError(503, "Models failed to load: ", error)
            /\ pc' = "idle"
       ELSE /\ response' = None
            /\ pc' = "gpt"
    /\ UNCHANGED serverVars
    /\ UNCHANGED histVars

\* a handler that starts a new load when it finds the models not loaded
generate_occupancy_retrying(req) ==
    /\ load_task # "none"
    /\ pc = "idle"
    /\ IsNone(response)
    /\ request' = Some(req)
    /\ PipeReset
    /\ IF ~models_loaded
       THEN /\ response' = HttpError(503, "Models failed to load: ", error)
            /\ pc' = "idle"
            /\ load_task' = "pending"
       ELSE /\ IF ~PowerOfTwoCheck(req.grid_resolution)
               THEN /\ response' = HttpError(400, "grid_resolution must be a power of 2", "")
                    /\ pc' = "idle"
               ELSE /\ response' = None
                    /\ pc' = "gpt"
            /\ UNCHANGED load_task
    /\ UNCHANGED <<engine, loading, error>>
    /\ UNCHANGED histVars

\* generate_occupancy, up to the await of asyncio.to_thread.  The server
\* accepts requests once startup_event has returned; the task it created may
\* not have run yet.
generate_occupancy(req) ==
    /\ load_task # "none"
    /\ pc = "idle"
    /\ IsNone(response)
    /\ request' = Some(req)
    /\ PipeReset
    /\ IF ~models_loaded
       THEN /\ response' = IF loading
                           THEN HttpError(503, "Models still loading - try again shortly", "")
                           ELSE HttpError(503, "Models failed to load: ", error)
            /\ pc' = "idle"
       ELSE IF ~PowerOfTwoCheck(req.grid_resolution)
       THEN /\ response' = HttpError(400, "grid_resolution must be a power of 2", "")
            /\ pc' = "idle"
       ELSE /\ response' = None
            /\ pc' = "gpt"
    /\ UNCHANGED serverVars
    /\ UNCHANGED histVars

\* an exception leaves generate_occupancy_field (its locals are gone) and
\* reaches `except Exception` in generate_occupancy: HTTP 500
GenerationFailed ==
    /\ response' = HttpError(500, "Generation failed: ", "exception")
    /\ pc' = "idle"
    /\ latents' = NoLatents
    /\ grid_size' = <<0, 0, 0>>
    /\ num_points' = 0
    /\ batch_size' = 0
    /\ i' = 0
    /\ all_logits' = <<>>

\* generate_occupancy_field, steps 1 and 2: run_gpt and decode_indices either
\* raise or yield the latent code
gof_gpt ==
    /\ pc = "gpt"
    /\ \/ /\ models_loaded
          /\ \E l \in LatentCodes : latents' = l
          /\ pc' = "grid"
          /\ UNCHANGED response
          /\ UNCHANGED <<grid_size, num_points, batch_size, i, all_logits>>
       \/ GenerationFailed
    /\ UNCHANGED <<decoder_calls, request>>
    /\ UNCHANGED serverVars
    /\ UNCHANGED histVars

\* step 3, up to the decoder loop: the grid and the loop's locals; b is the
\* value assigned to batch_size
gof_grid(b) ==
    /\ pc = "grid"
    /\ LET resolution_base == Log2(Get(request).grid_resolution)
           gs              == DenseGridSize(resolution_base)
       IN  /\ grid_size' = gs
           /\ num_points' = NumPoints(gs)
    /\ batch_size' = b
    /\ all_logits' = <<>>
    /\ i' = 0
    /\ pc' = "query"
    /\ UNCHANGED <<latents, decoder_calls, request, response>>
    /\ UNCHANGED serverVars
    /\ UNCHANGED histVars

\* a loop that logs a decoder failure and goes on with the next chunk
gof_query_skip ==
    /\ pc = "query"
    /\ i < num_points
    /\ LET batch == BatchPoints(i, i + batch_size, num_points)
       IN  \/ /\ decoder_calls' = Append(decoder_calls, [batch |-> batch, raised |-> FALSE])
              /\ all_logits' = Append(all_logits, Query(batch, latents))
           \/ /\ decoder_calls' = Append(decoder_calls, [batch |-> batch, raised |-> TRUE])
              /\ all_logits' = Append(all_logits, [k \in 1..Len(batch) |-> 0])
    /\ i' = i + batch_size
    /\ UNCHANGED <<pc, response, latents, grid_size, num_points, batch_size, request>>
    /\ UNCHANGED serverVars
    /\ UNCHANGED histVars

\* a decoder that is not deterministic: it may answer a batch with the
\* background level of the latent code at every point
gof_query_nondeterministic ==
    /\ pc = "query"
    /\ i < num_points
    /\ LET batch == BatchPoints(i, i + batch_size, num_points)
       IN  \/ /\ decoder_calls' = Append(decoder_calls, [batch |-> batch, raised |-> FALSE])
              /\ \E l \in {latents, [latents EXCEPT !.hot = <<>>]} :
                    all_logits' = Append(all_logits, Query(batch, l))
              /\ i' = i + batch_size
              /\ UNCHANGED <<pc, response, latents, grid_size, num_points, batch_size>>
           \/ /\ decoder_calls' = Append(decoder_calls, [batch |-> batch, raised |-> TRUE])
              /\ GenerationFailed
    /\ UNCHANGED request
    /\ UNCHANGED serverVars
    /\ UNCHANGED histVars

\* a loop that may leave out the batch after the one it queries
gof_query_skipping ==
    /\ pc = "query"
    /\ i < num_points
    /\ LET batch == BatchPoints(i, i + batch_size, num_points)
       IN  \/ /\ decoder_calls' = Append(decoder_calls, [batch |-> batch, raised |-> FALSE])
              /\ all_logits' = Append(all_logits, Query(batch, latents))
              /\ \E step \in {1, 2} : i' = i + step * batch_size
              /\ UNCHANGED <<pc, response, latents, grid_size, num_points, batch_size>>
           \/ /\ decoder_calls' = Append(decoder_calls, [batch |-> batch, raised |-> TRUE])
              /\ GenerationFailed
    /\ UNCHANGED request
    /\ UNCHANGED serverVars
    /\ UNCHANGED histVars

\* one iteration of `for i in range(0, num_points, batch_size)`: the decoder
\* answers the batch or raises
gof_query ==
    /\ pc = "query"
    /\ i < num_points
    /\ LET batch == BatchPoints(i, i + batch_size, num_points)
       IN  \/ /\ decoder_calls' = Append(decoder_calls, [batch |-> batch, raised |-> FALSE])
              /\ all_logits' = Append(all_logits, Query(batch, latents))
              /\ i' = i + batch_size
              /\ UNCHANGED <<pc, response, latents, grid_size, num_points, batch_size>>
           \/ /\ decoder_calls' = Append(decoder_calls, [batch |-> batch, raised |-> TRUE])
              /\ GenerationFailed
    /\ UNCHANGED request
    /\ UNCHANGED serverVars
    /\ UNCHANGED histVars

\* after the loop: torch.cat, steps 4 and 5, the OccupancyResult, and the
\* handler's return (or its HTTP 500 when the colour step raises)
gof_finish ==
    /\ pc = "query"
    /\ i >= num_points
    /\ IF ColoursRaise(Get(request), grid_size, all_logits)
       THEN /\ GenerationFailed
            /\ UNCHANGED decoder_calls
       ELSE /\ response' = HttpOk(OccupancyResult(Get(request), grid_size, all_logits))
            /\ pc' = "idle"
            /\ UNCHANGED pipeVars
    /\ UNCHANGED <<request>>
    /\ UNCHANGED serverVars
    /\ UNCHANGED histVars

\* the response has been sent: the server is ready for the next request
send_response ==
    /\ pc = "idle"
    /\ ~IsNone(response)
    /\ request' = None
    /\ response' = None
    /\ PipeReset
    /\ UNCHANGED pc
    /\ UNCHANGED serverVars
    /\ UNCHANGED histVars

Next ==
    \/ startup_event
    \/ load_models
    \/ \E req \in Requests : generate_occupancy(req)
    \/ gof_gpt
    \/ gof_grid(BatchSize)
    \/ gof_query
    \/ gof_finish
    \/ send_response

Spec == Init /\ [][Next]_vars

(***************************************************************************)
(* SpecIndex: steps 4 and 5 on grids of arbitrary axis sizes.  The decoder *)
(* loop has completed in a single chunk; gof_finish thresholds the field   *)
(* and decodes the surviving flat indices.                                 *)
(***************************************************************************)
PlainRequests ==
    {req \in Requests : /\ req.grid_resolution = 1
                        /\ ~req.include_logits
                        /\ IsNone(req.color_mode)
                        /\ IsNone(req.base_color)}

InitIndex ==
    /\ engine = "Engine"
    /\ loading = FALSE
    /\ error = "None"
    /\ load_task = "done"
    /\ request \in {Some(req) : req \in PlainRequests}
    /\ response = None
    /\ pc = "query"
    /\ latents \in LatentCodes
    /\ grid_size \in {<<nx, ny, nz>> : nx \in 1..MaxAxis, ny \in 1..MaxAxis, nz \in 1..MaxAxis}
    /\ num_points = NumPoints(grid_size)
    /\ batch_size = num_points
    /\ i = num_points
    /\ all_logits = <<Query(BatchPoints(0, num_points, num_points), latents)>>
    /\ decoder_calls = <<[batch |-> BatchPoints(0, num_points, num_points), raised |-> FALSE]>>
    /\ first_run = None
    /\ ExtInit

NextIndex == gof_finish \/ send_response

SpecIndex == InitIndex /\ [][NextIndex]_vars

IsOk(resp) == ~IsNone(resp) /\ Get(resp).status = 200
Result == Get(Get(response).result)

InGrid(v, gs) ==
    /\ 0 <= v[1] /\ v[1] < gs[1]
    /\ 0 <= v[2] /\ v[2] < gs[2]
    /\ 0 <= v[3] /\ v[3] < gs[3]

GridTriples(gs) ==
    {<<x, y, z>> : x \in 0..(gs[1] - 1), y \in 0..(gs[2] - 1), z \in 0..(gs[3] - 1)}

\* C1: on a grid of axis sizes nx, ny, nz >= 1, decoding a flat index and
\* re-encoding it returns the index; every decoded triple lies in the grid and
\* every triple of the grid is the decode of its own encoding, so the decode is
\* a bijection between 0..nx*ny*nz-1 and the grid triples.  In a result, the
\* k-th voxel re-encodes to the k-th occupied flat index.
C1_RoundTrip ==
    IsOk(response) =>
        LET ny  == grid_size[2]
            nz  == grid_size[3]
            occ == OccupiedIndices(Cat(all_logits), Get(request).threshold)
        IN  /\ \A idx \in 0..(num_points - 1) :
                  /\ InGrid(DecodeIndex(idx, ny, nz), grid_size)
                  /\ EncodeVoxel(DecodeIndex(idx, ny, nz), ny, nz) = idx
            /\ \A v \in GridTriples(grid_size) :
                  /\ EncodeVoxel(v, ny, nz) \in 0..(num_points - 1)
                  /\ DecodeIndex(EncodeVoxel(v, ny, nz), ny, nz) = v
            /\ Len(Result.occupied_voxels) = Len(occ)
            /\ \A k \in 1..Len(occ) :
                  EncodeVoxel(Result.occupied_voxels[k], ny, nz) = occ[k]

\* a result on a grid with three different axis sizes, every point occupied
C1_Witness ==
    /\ IsOk(response)
    /\ grid_size = <<2, 3, 1>>
    /\ Len(Result.occupied_voxels) = num_points


(***************************************************************************)
(* Properties of the served pipeline (Spec)                                *)
(***************************************************************************)
\* the logit of grid point p in the concatenated field
LogitAt(p) == Cat(all_logits)[p + 1]

\* the flat indices whose logit exceeds the request's threshold
AboveThreshold ==
    LET logits == Cat(all_logits)
    IN  {p \in 0..(num_points - 1) : logits[p + 1] > Get(request).threshold}

SeqToSet(s) == {s[k] : k \in 1..Len(s)}

\* C2: the threshold comparison is strict: occupied_voxels holds exactly one
\* triple for each flat index whose logit is > threshold, none for an index
\* whose logit equals the threshold or lies below it, and no duplicates.
C2_StrictThreshold ==
    IsOk(response) =>
        LET ny     == grid_size[2]
            nz     == grid_size[3]
            voxels == Result.occupied_voxels
        IN  /\ SeqToSet(voxels) = {DecodeIndex(p, ny, nz) : p \in AboveThreshold}
            /\ Len(voxels) = Cardinality(AboveThreshold)
            /\ \A k, m \in 1..Len(voxels) : voxels[k] = voxels[m] => k = m

\* a result over a field in which one logit exceeds the threshold and all the
\* others equal it: exactly one voxel is occupied
C2_Witness ==
    /\ IsOk(response)
    /\ \E p \in 0..(num_points - 1) :
          /\ LogitAt(p) > Get(request).threshold
          /\ \A q \in 0..(num_points - 1) \ {p} : LogitAt(q) = Get(request).threshold
    /\ Len(Result.occupied_voxels) = 1

LexLess(v, w) ==
    \/ v[1] < w[1]
    \/ v[1] = w[1] /\ v[2] < w[2]
    \/ v[1] = w[1] /\ v[2] = w[2] /\ v[3] < w[3]

\* C3: occupied_voxels is in ascending flat-index order: the voxels are the
\* decodes of a strictly ascending sequence of flat indices that enumerates
\* the occupied indices, so the k-th voxel is the decode of the k-th smallest
\* occupied flat index.
C3_FlatIndexOrder ==
    IsOk(response) =>
        LET voxels == Result.occupied_voxels
            ny     == grid_size[2]
            nz     == grid_size[3]
            idx    == [k \in 1..Len(voxels) |-> EncodeVoxel(voxels[k], ny, nz)]
        IN  /\ \A k \in 1..Len(voxels) : voxels[k] = DecodeIndex(idx[k], ny, nz)
            /\ \A k \in 1..(Len(voxels) - 1) : idx[k] < idx[k + 1]
            /\ SeqToSet(idx) = AboveThreshold

\* a result whose voxel list is not in ascending lexicographic order
C3_Witness ==
    /\ IsOk(response)
    /\ \E k \in 1..(Len(Result.occupied_voxels) - 1) :
          LexLess(Result.occupied_voxels[k + 1], Result.occupied_voxels[k])

\* C4 as stated: every coordinate of every occupied voxel is below the
\* resolution reported in the same response.
C4_CoordinatesBelowResolution ==
    IsOk(response) =>
        \A k \in 1..Len(Result.occupied_voxels) :
            \A c \in 1..3 :
                /\ 0 <= Result.occupied_voxels[k][c]
                /\ Result.occupied_voxels[k][c] < Result.resolution

(***************************************************************************)
(* SpecGrid: the handler and the grid construction on the range of         *)
(* grid_resolution the request model admits (Field(64, ge=8, le=256)).     *)
(* The decoder loop over these grids is not run.                           *)
(***************************************************************************)
GridRequests ==
    [grid_resolution : grid_resolution_ge..grid_resolution_le,
     threshold       : {0},
     include_logits  : {FALSE},
     color_mode      : {None},
     base_color      : {None}]

NextGrid ==
    \/ startup_event
    \/ load_models
    \/ \E req \in GridRequests : generate_occupancy(req)
    \/ gof_gpt
    \/ gof_grid(BatchSize)
    \/ send_response

SpecGrid == Init /\ [][NextGrid]_vars

\* r is a power of two
IsPowerOfTwo(r) == \E e \in 0..Log2(r) : Exp2(e) = r

\* C5: for a request of resolution r that reaches the decoder loop (r is a
\* power of two with 8 <= r <= 256), the grid has r + 1 points per axis and
\* (r + 1)^3 points in all, and the resolution that is reported for this grid
\* is r.
C5_GridAndResolution ==
    pc = "query" =>
        LET r == Get(request).grid_resolution
        IN  /\ IsPowerOfTwo(r)
            /\ grid_size = <<r + 1, r + 1, r + 1>>
            /\ num_points = (r + 1) * (r + 1) * (r + 1)
            /\ ActualResolution(grid_size) = r

\* the grid of the largest admitted resolution has been built
C5_Witness ==
    /\ pc = "query"
    /\ Get(request).grid_resolution = 256
    /\ num_points = 16974593

(***************************************************************************)
(* SpecChunks: the service with the decoder loop run at every batch size   *)
(* in 1..MaxBatch, on requests without colours or raw logits.              *)
(***************************************************************************)
ChunkRequests ==
    {req \in Requests : /\ ~req.include_logits
                        /\ IsNone(req.color_mode)
                        /\ IsNone(req.base_color)}

NextChunks ==
    \/ startup_event
    \/ load_models
    \/ \E req \in ChunkRequests : generate_occupancy(req)
    \/ gof_gpt
    \/ \E b \in 1..MaxBatch : gof_grid(b)
    \/ gof_query
    \/ gof_finish
    \/ send_response

SpecChunks == Init /\ [][NextChunks]_vars

CeilDiv(n, b) == (n + b - 1) \div b

\* the decoder loop has run to its end without a decoder failure
LoopDone == (pc = "query" /\ i >= num_points) \/ IsOk(response)

\* C6: the k-th decoder call receives the contiguous points
\* [(k-1)*B, min(k*B, N)), which are at least one and at most B points; when
\* the loop has ended there have been exactly ceil(N/B) calls and every grid
\* point has been queried exactly once.
C6_ChunkedCalls ==
    (pc = "query" \/ IsOk(response)) =>
        /\ \A k \in 1..Len(decoder_calls) :
              LET lo    == (k - 1) * batch_size
                  hi    == Min(k * batch_size, num_points)
                  batch == decoder_calls[k].batch
              IN  /\ lo < hi
                  /\ Len(batch) = hi - lo
                  /\ Len(batch) <= batch_size
                  /\ \A m \in 1..Len(batch) : batch[m] = lo + m - 1
        /\ LoopDone =>
              /\ Len(decoder_calls) = CeilDiv(num_points, batch_size)
              /\ \A p \in 0..(num_points - 1) :
                    Cardinality({<<k, m>> \in (1..Len(decoder_calls)) \X (1..batch_size) :
                                    /\ m <= Len(decoder_calls[k].batch)
                                    /\ decoder_calls[k].batch[m] = p}) = 1

\* 27 points in batches of 4: a result after exactly 7 decoder calls
C6_Witness ==
    /\ IsOk(response)
    /\ num_points = 27
    /\ batch_size = 4
    /\ Len(decoder_calls) = 7

\* C7: with a decoder that returns one logit per point in input order, the
\* concatenated logits have one element per grid point and the element at
\* position p is the decoder's logit for point p, at every batch size.
C7_LogitsInPointOrder ==
    LoopDone =>
        /\ Len(Cat(all_logits)) = num_points
        /\ \A p \in 0..(num_points - 1) : LogitAt(p) = Decoder(latents, p)

\* the loop has ended with a short last chunk, and the one point whose logit
\* differs from the others lies in that chunk
C7_Witness ==
    /\ pc = "query"
    /\ i >= num_points
    /\ num_points % batch_size # 0
    /\ Len(all_logits) > 1
    /\ DOMAIN latents.hot = {num_points - 1}
    /\ latents.hot[num_points - 1] # latents.bg

(***************************************************************************)
(* Colours, empty results and decoder failures (Spec)                      *)
(***************************************************************************)
SetMin(S) == CHOOSE x \in S : \A y \in S : x <= y
SetMax(S) == CHOOSE x \in S : \A y \in S : x >= y

\* the extremes over the occupied set that the colour modes normalise by
OccupiedStats ==
    LET gs     == grid_size
        logits == Cat(all_logits)
        voxels == {DecodeIndex(p, gs[2], gs[3]) : p \in AboveThreshold}
    IN  [y_min  |-> SetMin({w[2] : w \in voxels}),
         y_max  |-> SetMax({w[2] : w \in voxels}),
         d_max  |-> SetMax({RadialDist(w, gs[1], gs[2], gs[3]) : w \in voxels}),
         l_min  |-> SetMin({logits[p + 1] : p \in AboveThreshold}),
         l_max  |-> SetMax({logits[p + 1] : p \in AboveThreshold}),
         logits |-> logits]

\* the colour the requested mode gives to voxel v, computed from the voxel's
\* own coordinates and the logit of its own grid point
ColourOfVoxel(v, st) ==
    LET mode == Get(Get(request).color_mode)
        base == BaseColorOrDefault(Get(request).base_color)
        gs   == grid_size
    IN  IF mode = "height" THEN
            [c \in 1..3 |->
                HeightChannel(base[c], v[2], st.y_min, Max(st.y_max - st.y_min, 1))]
        ELSE IF mode = "radial" THEN
            [c \in 1..3 |->
                RadialChannel(base[c], RadialDist(v, gs[1], gs[2], gs[3]), Max(st.d_max, Scale))]
        ELSE IF mode = "density" THEN
            [c \in 1..3 |->
                DensityChannel(base[c], st.logits[EncodeVoxel(v, gs[2], gs[3]) + 1],
                               st.l_min, st.l_max)]
        ELSE base

\* C8: when voxel_colors is present it has the length of occupied_voxels and
\* its k-th entry is the colour of the k-th voxel, in every colour mode
\* including an unknown mode name.
C8_ColoursMatchVoxels ==
    (IsOk(response) /\ ~IsNone(Result.voxel_colors)) =>
        LET colours == Get(Result.voxel_colors)
            voxels  == Result.occupied_voxels
            st      == OccupiedStats
        IN  /\ Len(colours) = Len(voxels)
            /\ \A k \in 1..Len(voxels) : colours[k] = ColourOfVoxel(voxels[k], st)

\* density colours for a partly occupied grid in which two voxels differ in
\* colour
C8_Witness ==
    /\ IsOk(response)
    /\ Get(request).color_mode = Some("density")
    /\ ~IsNone(Result.voxel_colors)
    /\ \E k, m \in 1..Len(Get(Result.voxel_colors)) :
          Get(Result.voxel_colors)[k] # Get(Result.voxel_colors)[m]

\* voxel_colors is present under an unknown mode name
C8_WitnessUnknownMode ==
    /\ IsOk(response)
    /\ Get(request).color_mode = Some("rainbow")
    /\ ~IsNone(Result.voxel_colors)

\* C9: when the decoder loop has ended over a field with no logit above the
\* threshold, the request is answered 200 with an empty occupied_voxels and
\* voxel_colors None, in every colour mode; and when no colour mode was
\* requested it is answered 200 with voxel_colors None.
C9_EmptyResult ==
    [][(pc = "query" /\ i >= num_points /\ (AboveThreshold = {} \/ IsNone(Get(request).color_mode)))
        => /\ IsOk(response')
           /\ AboveThreshold = {} => Get(Get(response').result).occupied_voxels = <<>>
           /\ IsNone(Get(Get(response').result).voxel_colors)]_vars

\* a colour mode was requested, nothing is occupied: 200, empty list, no colours
C9_Witness ==
    /\ IsOk(response)
    /\ Get(request).color_mode = Some("height")
    /\ AboveThreshold = {}
    /\ Result.occupied_voxels = <<>>
    /\ IsNone(Result.voxel_colors)

Is500(resp) ==
    /\ ~IsNone(resp)
    /\ Get(resp).status = 500
    /\ IsNone(Get(resp).result)

\* C10: a decoder call that raised is the last call of the request: no later
\* chunk is queried and the chunk is not submitted again (no two calls carry
\* the same batch); the request is over, answered 500 without a result.
C10_DecoderFailureAborts ==
    /\ \A k \in 1..Len(decoder_calls) :
          decoder_calls[k].raised =>
              /\ k = Len(decoder_calls)
              /\ pc = "idle"
              /\ Is500(response)
    /\ \A k, m \in 1..Len(decoder_calls) :
          decoder_calls[k].batch = decoder_calls[m].batch => k = m

\* the decoder raised on the second of several chunks
C10_Witness ==
    /\ Len(decoder_calls) = 2
    /\ decoder_calls[2].raised
    /\ Len(decoder_calls[2].batch) = BatchSize
    /\ Is500(response)

(***************************************************************************)
(* The handler's gates (SpecGrid)                                          *)
(***************************************************************************)
IsStatus(resp, status) ==
    /\ ~IsNone(resp)
    /\ Get(resp).status = status
    /\ IsNone(Get(resp).result)

\* no step of generate_occupancy_field has run for the current request
PipelineUntouched ==
    /\ latents = NoLatents
    /\ grid_size = <<0, 0, 0>>
    /\ all_logits = <<>>
    /\ decoder_calls = <<>>

\* C11: a request with grid_resolution in 8..256 that arrives while the
\* models are loaded starts the pipeline if and only if its resolution is a
\* power of two; otherwise it is answered 400, and as long as that answer
\* stands no token generation, grid construction or decoder call has run or
\* can run.
C11_PowerOfTwoGate ==
    /\ [][(models_loaded /\ IsNone(request) /\ ~IsNone(request')) =>
            LET r == Get(request').grid_resolution
            IN  /\ r \in grid_resolution_ge..grid_resolution_le
                /\ (pc' = "gpt") <=> IsPowerOfTwo(r)
                /\ IsPowerOfTwo(r) => IsNone(response')
                /\ ~IsPowerOfTwo(r) => IsStatus(response', 400)]_vars
    /\ [](IsStatus(response, 400) =>
            /\ pc = "idle"
            /\ PipelineUntouched
            /\ ~ENABLED gof_gpt
            /\ ~ENABLED gof_grid(BatchSize)
            /\ ~ENABLED gof_query)

\* grid_resolution = 12 with the models loaded: answered 400
C11_Witness ==
    /\ models_loaded
    /\ ~IsNone(request)
    /\ Get(request).grid_resolution = 12
    /\ IsStatus(response, 400)
    /\ PipelineUntouched

\* C12: a request that arrives while the models are not loaded (before
\* load_models has run, or after it failed) is answered 503, whatever its
\* parameters, and the pipeline is not started; no request is answered 400 or
\* 500 and no pipeline step runs while the models are not loaded.
C12_UnavailableIs503 ==
    /\ [][(~models_loaded /\ IsNone(request) /\ ~IsNone(request')) =>
            /\ IsStatus(response', 503)
            /\ pc' = "idle"
            /\ PipelineUntouched']_vars
    /\ [](~models_loaded =>
            /\ pc = "idle"
            /\ PipelineUntouched
            /\ ~IsStatus(response, 400)
            /\ ~IsStatus(response, 500))

\* the models failed to load and a request whose resolution is not a power of
\* two is answered 503
C12_Witness ==
    /\ load_task = "done"
    /\ ~models_loaded
    /\ ~IsNone(request)
    /\ ~PowerOfTwoCheck(Get(request).grid_resolution)
    /\ IsStatus(response, 503)

\* a request answered 503 before load_models has run
C12_WitnessNotStarted ==
    /\ load_task = "pending"
    /\ ~IsNone(request)
    /\ IsStatus(response, 503)

(***************************************************************************)
(* SpecColor: step 5 (generate_voxel_colors) on fields with several logit  *)
(* levels, on cubic and non-cubic grids.  The decoder loop has completed   *)
(* in a single chunk; gof_finish thresholds, decodes and colours.          *)
(***************************************************************************)
\* logit levels of the fields; with threshold 0 level 0 is unoccupied
ColourLogits == {0, 1, 2, 3}

\* background levels: below the threshold (only hot points are occupied) or
\* above it (every point is occupied unless a hot point lies below)
ColourBackgrounds == {0, 1}

\* the grid of grid_resolution 1, a single point, and a grid whose axis sizes
\* differ
ColourGrids == {<<1, 1, 1>>, <<2, 2, 2>>, <<2, 3, 1>>}

\* a colour mode is requested; base_color is absent or an RGB triple with
\* channels in [0, 1]
ColourRequests ==
    {req \in Requests : /\ req.grid_resolution = 1
                        /\ req.threshold = 0
                        /\ ~req.include_logits
                        /\ ~IsNone(req.color_mode)
                        /\ Get(req.color_mode) # ""
                        /\ Len(BaseColorOrDefault(req.base_color)) = 3}

\* the latent codes of the fields over n points
ColourLatents(n) ==
    UNION {{[bg |-> b, hot |-> f] :
                f \in UNION {[h -> ColourLogits \ {b}] :
                                h \in SmallSubsets(0..(Min(HotPoints, n) - 1), MaxColourHot)}} :
            b \in ColourBackgrounds}

InitColor ==
    /\ engine = "Engine"
    /\ loading = FALSE
    /\ error = "None"
    /\ load_task = "done"
    /\ request \in {Some(req) : req \in ColourRequests}
    /\ response = None
    /\ pc = "query"
    /\ grid_size \in ColourGrids
    /\ num_points = NumPoints(grid_size)
    /\ latents \in ColourLatents(num_points)
    /\ batch_size = num_points
    /\ i = num_points
    /\ all_logits = <<Query(BatchPoints(0, num_points, num_points), latents)>>
    /\ decoder_calls = <<[batch |-> BatchPoints(0, num_points, num_points), raised |-> FALSE]>>
    /\ first_run = None
    /\ ExtInit

NextColor == gof_finish \/ send_response

SpecColor == InitColor /\ [][NextColor]_vars

HasColours == IsOk(response) /\ ~IsNone(Result.voxel_colors)
Colours == Get(Result.voxel_colors)
RequestMode == Get(Get(request).color_mode)
RequestBase == BaseColorOrDefault(Get(request).base_color)

\* C13: with a base colour whose channels lie in [0, 1], every channel of
\* every returned colour lies in [0, 1], in every colour mode (an unknown
\* name included) and for every occupied set and every logit field.
C13_ChannelsInUnitRange ==
    HasColours =>
        /\ \A c \in 1..3 : 0 <= RequestBase[c] /\ RequestBase[c] <= Scale
        /\ \A k \in 1..Len(Colours) :
              /\ Len(Colours[k]) = 3
              /\ \A c \in 1..3 : 0 <= Colours[k][c] /\ Colours[k][c] <= Scale

\* height colours with a base channel 1.0 for voxels that span the whole y
\* range of the grid, the top voxel at full brightness
C13_Witness ==
    /\ HasColours
    /\ RequestMode = "height"
    /\ RequestBase[1] = Scale
    /\ grid_size = <<2, 3, 1>>
    /\ \E k, m \in 1..Len(Colours) :
          /\ Result.occupied_voxels[k][2] = 0
          /\ Result.occupied_voxels[m][2] = 2
          /\ Colours[m][1] = Scale

\* colours for a single occupied voxel
C13_WitnessSingleVoxel ==
    /\ HasColours
    /\ RequestMode = "density"
    /\ Len(Result.occupied_voxels) = 1

\* the y coordinates of the occupied voxels of the result
OccupiedYs == {Result.occupied_voxels[k][2] : k \in 1..Len(Result.occupied_voxels)}

\* C14: in height mode, with y_min and y_max the extremes of y over the
\* occupied voxels and range = max(y_max - y_min, 1), each channel is
\* base * (0.5 + 0.5 * (y - y_min) / range), which never needs the clamp at 1:
\* the lowest occupied voxels get 0.5 * base, the highest get base when
\* y_max > y_min, and all get 0.5 * base when they share one y.  Two voxels
\* at y = 0 and y = 10 with base (1, 1, 1) get (0.5, 0.5, 0.5) and (1, 1, 1).
C14_HeightGradient ==
    /\ (HasColours /\ RequestMode = "height") =>
          LET y_min   == SetMin(OccupiedYs)
              y_max   == SetMax(OccupiedYs)
              y_range == IF y_max > y_min THEN y_max - y_min ELSE 1
          IN  \A k \in 1..Len(Colours) : \A c \in 1..3 :
                  LET y  == Result.occupied_voxels[k][2]
                      b  == RequestBase[c]
                      ch == Colours[k][c]
                  IN  \* ch = floor(b * (range + (y - y_min)) / (2 * range))
                      /\ 2 * y_range * ch <= b * (y_range + (y - y_min))
                      /\ b * (y_range + (y - y_min)) < 2 * y_range * (ch + 1)
                      /\ y = y_min => 2 * ch = b
                      /\ (y = y_max /\ y_max > y_min) => ch = b
                      /\ y_max = y_min => 2 * ch = b
    /\ HeightColors(<<(<<0, 0, 0>>), (<<0, 10, 0>>)>>, <<Scale, Scale, Scale>>)
          = <<(<<Scale \div 2, Scale \div 2, Scale \div 2>>), (<<Scale, Scale, Scale>>)>>

\* height colours for occupied voxels at y = 1 and y = 2 only (none at
\* y = 0): the lower ones get 0.5 * base, the upper ones base
C14_Witness ==
    /\ HasColours
    /\ RequestMode = "height"
    /\ OccupiedYs = {1, 2}
    /\ \E k, m \in 1..Len(Colours) :
          /\ Result.occupied_voxels[k][2] = 1
          /\ Colours[k] = [c \in 1..3 |-> RequestBase[c] \div 2]
          /\ Result.occupied_voxels[m][2] = 2
          /\ Colours[m] = RequestBase

\* height colours for voxels that share one y > 0: all get 0.5 * base
C14_WitnessOneLevel ==
    /\ HasColours
    /\ RequestMode = "height"
    /\ OccupiedYs = {1}
    /\ Len(Colours) > 1
    /\ \A k \in 1..Len(Colours) : Colours[k] = [c \in 1..3 |-> RequestBase[c] \div 2]

\* the logit of the grid point from which the k-th voxel of the result was
\* decoded
VoxelLogit(k) == LogitAt(EncodeVoxel(Result.occupied_voxels[k], grid_size[2], grid_size[3]))

\* the logits of the occupied grid points
OccupiedLogitSet == {LogitAt(p) : p \in AboveThreshold}

\* C15: in density mode the k-th colour is computed from the logit of the
\* grid point the k-th voxel was decoded from, normalised by the extremes of
\* the occupied logits only: channel = base * (0.4 + 0.6 * t) with
\* t = (logit - min) / (max - min) when max > min (integer logits then differ
\* by at least 1 >= 1e-6) and t = 0 when all occupied logits are equal.  The
\* voxels with the lowest occupied logit get 0.4 * base, those with the
\* highest get base when max > min.
C15_DensityGradient ==
    (HasColours /\ RequestMode = "density") =>
        LET l_min == SetMin(OccupiedLogitSet)
            l_max == SetMax(OccupiedLogitSet)
            range == l_max - l_min
        IN  /\ Len(Colours) = Len(Result.occupied_voxels)
            /\ \A k \in 1..Len(Colours) : \A c \in 1..3 :
                  LET l  == VoxelLogit(k)
                      b  == RequestBase[c]
                      ch == Colours[k][c]
                  IN  /\ l > Get(request).threshold
                      /\ range > 0 =>
                            \* ch = floor(b * (4*range + 6*(l - l_min)) / (10*range))
                            /\ 10 * range * ch <= b * (4 * range + 6 * (l - l_min))
                            /\ b * (4 * range + 6 * (l - l_min)) < 10 * range * (ch + 1)
                            /\ l = l_max => ch = b
                      /\ (l = l_min \/ range = 0) => 10 * ch = 4 * b

\* density colours over three occupied logit levels: 0.4 * base, 0.7 * base
\* and base
C15_Witness ==
    /\ HasColours
    /\ RequestMode = "density"
    /\ \E k, m, n \in 1..Len(Colours) :
          /\ VoxelLogit(k) < VoxelLogit(m)
          /\ VoxelLogit(m) < VoxelLogit(n)
          /\ Colours[k] = [c \in 1..3 |-> (4 * RequestBase[c]) \div 10]
          /\ Colours[m] = [c \in 1..3 |-> (7 * RequestBase[c]) \div 10]
          /\ Colours[n] = RequestBase

\* density colours over two occupied logit levels beside an unoccupied point
\* whose logit is the minimum of the field
C15_WitnessOccupiedOnly ==
    /\ HasColours
    /\ RequestMode = "density"
    /\ Len(Colours) < num_points
    /\ Cardinality(OccupiedLogitSet) = 2
    /\ \E k \in 1..Len(Colours) :
          /\ VoxelLogit(k) = SetMin(OccupiedLogitSet)
          /\ Colours[k] = [c \in 1..3 |-> (4 * RequestBase[c]) \div 10]

\* density colours when all occupied logits are equal: 0.4 * base
C15_WitnessEqualLogits ==
    /\ HasColours
    /\ RequestMode = "density"
    /\ Len(Colours) > 1
    /\ Cardinality(OccupiedLogitSet) = 1
    /\ \A k \in 1..Len(Colours) : Colours[k] = [c \in 1..3 |-> (4 * RequestBase[c]) \div 10]

\* four times the squared Euclidean distance of voxel v to
\* (n_x/2, n_y/2, n_z/2), an integer
Dist2(v) ==
    (2 * v[1] - grid_size[1]) * (2 * v[1] - grid_size[1])
  + (2 * v[2] - grid_size[2]) * (2 * v[2] - grid_size[2])
  + (2 * v[3] - grid_size[3]) * (2 * v[3] - grid_size[3])

OccupiedDist2 == {Dist2(Result.occupied_voxels[k]) : k \in 1..Len(Result.occupied_voxels)}

\* the radial gradient over voxels with distances d (d_max the largest) and
\* four-fold squared distances d2 (d2_max the largest)
RadialGradient(colours, base, d, d_max, d2, d2_max) ==
    /\ \A k \in 1..Len(colours) : \A c \in 1..3 :
          LET b  == base[c]
              ch == colours[k][c]
              t  == (d[k] * Scale) \div Max(d_max, Scale)
          IN  /\ 0 <= t /\ t <= Scale
              /\ 10 * Scale * ch <= b * (10 * Scale - 4 * t)
              /\ b * (10 * Scale - 4 * t) < 10 * Scale * (ch + 1)
              /\ 6 * b <= 10 * ch /\ ch <= b
              /\ d2[k] = 0 => ch = b
              /\ (d2[k] = d2_max /\ d2_max >= 4) => 10 * ch = 6 * b
    /\ \A k, m \in 1..Len(colours) :
          /\ d2[m] > d2[k] => \A c \in 1..3 : colours[m][c] <= colours[k][c]
          /\ d2[m] = d2[k] => colours[m] = colours[k]

\* C16: in radial mode each channel is base * (1 - 0.4 * t) with
\* t = d / max(d_max, 1), d the distance of the voxel to
\* (n_x/2, n_y/2, n_z/2) and d_max the largest d among the occupied voxels.
\* The channel lies between 0.6 * base and base (the clamp at 0 never acts), a
\* voxel farther from that point is never brighter than a nearer one, voxels
\* at equal distance get equal colours, and the farthest occupied voxels get
\* 0.6 * base whenever d_max >= 1.
C16_RadialGradient ==
    (HasColours /\ RequestMode = "radial") =>
        LET voxels == Result.occupied_voxels
            gs     == grid_size
            d2     == [k \in 1..Len(voxels) |-> Dist2(voxels[k])]
            d      == [k \in 1..Len(voxels) |-> RadialDist(voxels[k], gs[1], gs[2], gs[3])]
        IN  RadialGradient(Colours, RequestBase, d, SeqMax(d), d2, SeqMax(d2))

\* radial colours on the grid <<2, 3, 1>> for a nearer and a farther voxel,
\* d_max >= 1: the farther one gets 0.6 * base, the nearer one is brighter
C16_Witness ==
    /\ HasColours
    /\ RequestMode = "radial"
    /\ grid_size = <<2, 3, 1>>
    /\ SetMax(OccupiedDist2) >= 4
    /\ \E k, m \in 1..Len(Colours) :
          /\ Dist2(Result.occupied_voxels[k]) < Dist2(Result.occupied_voxels[m])
          /\ Dist2(Result.occupied_voxels[m]) = SetMax(OccupiedDist2)
          /\ Colours[m] = [c \in 1..3 |-> (6 * RequestBase[c]) \div 10]
          /\ Colours[k][1] > Colours[m][1]

\* radial colours when every occupied voxel is nearer than 1 to the centre
\* point: the distance is not stretched, the farthest voxel is brighter than
\* 0.6 * base
C16_WitnessNear ==
    /\ HasColours
    /\ RequestMode = "radial"
    /\ SetMax(OccupiedDist2) < 4
    /\ SetMax(OccupiedDist2) > 0
    /\ \A k \in 1..Len(Colours) : 10 * Colours[k][1] > 6 * RequestBase[1]

KnownModes == {"solid", "height", "radial", "density"}

\* names that are none of the four modes: the empty string, an unrelated
\* name, and a known name in another letter case
UnknownModeNames == {"", "rainbow", "Solid", "HEIGHT"}

\* generate_voxel_colors applied to the voxels, logits and grid of the result
\* under the mode called name
ColoursUnder(name) ==
    LET logits_np == Cat(all_logits)
    IN  generate_voxel_colors(Result.occupied_voxels, logits_np,
                              OccupiedIndices(logits_np, Get(request).threshold),
                              grid_size[1], grid_size[2], grid_size[3],
                              name, RequestBase)

\* C17: for a non-empty occupied set, generate_voxel_colors under a name that
\* is none of solid, height, radial, density returns what it returns under
\* solid: base_color, unchanged, for every voxel; a request with such a mode
\* is answered 200 with these colours, never 500.
C17_UnknownModeIsSolid ==
    /\ (IsOk(response) /\ Result.occupied_voxels # <<>>) =>
          LET solid == [k \in 1..Len(Result.occupied_voxels) |-> RequestBase]
          IN  /\ ColoursUnder("solid") = solid
              /\ \A name \in UnknownModeNames : ColoursUnder(name) = solid
              /\ RequestMode \notin KnownModes =>
                    /\ HasColours
                    /\ Colours = solid
    /\ (~IsNone(response) /\ RequestMode \notin KnownModes) => IsOk(response)

\* a request with color_mode "rainbow" and base_color (1, 0.5, 0) answered
\* with that colour for each of several voxels
C17_Witness ==
    /\ HasColours
    /\ RequestMode = "rainbow"
    /\ ~IsNone(Get(request).base_color)
    /\ Len(Colours) > 1
    /\ \A k \in 1..Len(Colours) : Colours[k] = <<Scale, Scale \div 2, 0>>

(***************************************************************************)
(* Raw logits in the response (Spec)                                       *)
(***************************************************************************)
\* C18: a result carries logits if and only if the request set
\* include_logits; the logits are then the whole field, one value per grid
\* point (n_x * n_y * n_z values), the value at position p being the
\* decoder's logit for the point of flat index p, occupied or not.
C18_LogitsIffRequested ==
    IsOk(response) =>
        /\ ~IsNone(Result.logits) <=> Get(request).include_logits
        /\ ~IsNone(Result.logits) =>
              /\ Len(Get(Result.logits)) = grid_size[1] * grid_size[2] * grid_size[3]
              /\ Len(Get(Result.logits)) = num_points
              /\ \A p \in 0..(num_points - 1) :
                    Get(Result.logits)[p + 1] = Decoder(latents, p)

\* logits were requested on a grid queried in several chunks, and only one
\* point is occupied: the result carries the logits of all points
C18_Witness ==
    /\ IsOk(response)
    /\ Get(request).include_logits
    /\ Len(all_logits) > 1
    /\ Len(Result.occupied_voxels) = 1
    /\ Len(Get(Result.logits)) = num_points
    /\ \E p \in 0..(num_points - 1) : Get(Result.logits)[p + 1] <= Get(request).threshold

\* logits were not requested: the result carries none
C18_WitnessNotRequested ==
    /\ IsOk(response)
    /\ ~Get(request).include_logits
    /\ IsNone(Result.logits)
    /\ Result.occupied_voxels # <<>>

\* C19 as stated: when a result carries logits, their number is the cube of
\* the resolution reported in the same result.
C19_LogitCountIsResolutionCubed ==
    (IsOk(response) /\ ~IsNone(Result.logits)) =>
        Len(Get(Result.logits)) = Result.resolution * Result.resolution * Result.resolution

(***************************************************************************)
(* SpecTwice: the service with a client that keeps the result of one run   *)
(* and then repeats the same request; the token generator returns the      *)
(* same latent code for the repeated request.                              *)
(***************************************************************************)
TwiceRequests == {req \in Requests : ~req.include_logits}

\* the client receives a result and keeps it, with the inputs of the run
keep_result ==
    /\ pc = "idle"
    /\ ~IsNone(response)
    /\ Get(response).status = 200
    /\ IsNone(first_run)
    /\ first_run' = Some([request |-> Get(request),
                          latents |-> latents,
                          result  |-> Get(Get(response).result)])
    /\ request' = None
    /\ response' = None
    /\ PipeReset
    /\ UNCHANGED pc
    /\ UNCHANGED serverVars
    /\ UNCHANGED extVars

NextTwice ==
    \/ startup_event
    \/ load_models
    \/ \E req \in TwiceRequests :
          /\ IF IsNone(first_run) THEN TRUE ELSE req = Get(first_run).request
          /\ generate_occupancy(req)
    \/ /\ gof_gpt
       /\ IF IsNone(first_run) \/ pc' = "idle"
          THEN TRUE
          ELSE latents' = Get(first_run).latents
    \/ gof_grid(BatchSize)
    \/ gof_query
    \/ gof_finish
    \/ send_response
    \/ keep_result

SpecTwice == Init /\ [][NextTwice]_vars

Workers == {1, 2}
\* grid_resolution of the concurrent requests, Log2 of it 0: 2 x 2 x 2 points
ConcurrentResolution == 1
ConcurrentPoints == NumPoints(DenseGridSize(Log2(ConcurrentResolution)))

\* seed: Optional[int]
Seeds == {None, Some(0), Some(1)}
\* top_p: Optional[float], "None for deterministic"; set means sampling
TopPs == {None, Some(1)}
ThreadRequests == [seed : Seeds, top_p : TopPs]

\* the global generator has RngPeriod states; torch.manual_seed(seed) puts it
\* into the state of that seed, every sampling pass moves it on
RngPeriod == 3
ManualSeed(seed) == seed % RngPeriod
Advance(r) == (r + 1) % RngPeriod
\* run_gpt and decode_indices with top_p set: the shape sampled in generator
\* state r (different states give different shapes)
SampleLatent(r) == [bg |-> 0, hot |-> [p \in {r} |-> 1]]
\* run_gpt and decode_indices with top_p None: the most likely shape
GreedyLatent == [bg |-> 1, hot |-> <<>>]

\* both worker threads idle, the models loaded
InitConcurrent ==
    /\ engine = "Engine"
    /\ loading = FALSE
    /\ error = "None"
    /\ load_task = "done"
    /\ request = None
    /\ response = None
    /\ pc = "idle"
    /\ PipeInit
    /\ first_run = None
    /\ ExtInit

ThreadUnchanged ==
    /\ UNCHANGED <<request, response, pc, first_run, health_response, xcube, trellis, startups>>
    /\ UNCHANGED serverVars
    /\ UNCHANGED pipeVars

\* generate_occupancy with the models loaded and a valid resolution, up to
\* `await asyncio.to_thread(generate_occupancy_field, ...)`: thread w starts
generate_occupancy_to_thread(w, req) ==
    /\ models_loaded
    /\ PowerOfTwoCheck(ConcurrentResolution)
    /\ threads[w].pc = "idle"
    /\ threads' = [threads EXCEPT ![w] =
                      [pc |-> "seed", seed |-> req.seed, top_p |-> req.top_p,
                       latents |-> NoLatents, i |-> 0, all_logits |-> <<>>]]
    /\ UNCHANGED <<rng, decoder_log>>
    /\ ThreadUnchanged

\* `if seed is not None: torch.manual_seed(seed); np.random.seed(seed)`
thread_seed(w) ==
    /\ threads[w].pc = "seed"
    /\ rng' = IF IsNone(threads[w].seed) THEN rng ELSE ManualSeed(Get(threads[w].seed))
    /\ threads' = [threads EXCEPT ![w].pc = "gpt"]
    /\ UNCHANGED decoder_log
    /\ ThreadUnchanged

\* steps 1 to 3 before the loop: run_gpt and decode_indices draw from the
\* global generator when top_p is set
thread_run_gpt(w) ==
    /\ threads[w].pc = "gpt"
    /\ IF IsNone(threads[w].top_p)
       THEN /\ threads' = [threads EXCEPT ![w].pc = "query", ![w].latents = GreedyLatent]
            /\ UNCHANGED rng
       ELSE /\ threads' = [threads EXCEPT ![w].pc = "query",
                                          ![w].latents = SampleLatent(rng)]
            /\ rng' = Advance(rng)
    /\ UNCHANGED decoder_log
    /\ ThreadUnchanged

\* one iteration of the decoder loop in thread w: the decoder answers the
\* batch or raises (HTTP 500)
thread_query(w) ==
    /\ threads[w].pc = "query"
    /\ threads[w].i < ConcurrentPoints
    /\ decoder_log' = Append(decoder_log, w)
    /\ LET batch == BatchPoints(threads[w].i, threads[w].i + BatchSize, ConcurrentPoints)
       IN  \/ threads' = [threads EXCEPT
                             ![w].all_logits = Append(@, Query(batch, threads[w].latents)),
                             ![w].i = @ + BatchSize]
           \/ threads' = [threads EXCEPT ![w].pc = "failed"]
    /\ UNCHANGED rng
    /\ ThreadUnchanged

\* the loop is over: generate_occupancy_field returns its result
thread_return(w) ==
    /\ threads[w].pc = "query"
    /\ threads[w].i >= ConcurrentPoints
    /\ threads' = [threads EXCEPT ![w].pc = "done"]
    /\ UNCHANGED <<rng, decoder_log>>
    /\ ThreadUnchanged

\* the handler resumes and answers; the thread is free for the next request
thread_respond(w) ==
    /\ threads[w].pc \in {"done", "failed"}
    /\ threads' = [threads EXCEPT ![w] = IdleThread]
    /\ decoder_log' = SelectSeq(decoder_log, LAMBDA v : v # w)
    /\ UNCHANGED rng
    /\ ThreadUnchanged

NextConcurrent ==
    \/ \E w \in Workers, req \in ThreadRequests : generate_occupancy_to_thread(w, req)
    \/ \E w \in Workers : thread_seed(w)
    \/ \E w \in Workers : thread_run_gpt(w)
    \/ \E w \in Workers : thread_query(w)
    \/ \E w \in Workers : thread_return(w)
    \/ \E w \in Workers : thread_respond(w)

SpecConcurrent == InitConcurrent /\ [][NextConcurrent]_vars

\* the shape a request gets when it is the only one in the server
SoloLatent(seed, top_p) ==
    IF IsNone(top_p) THEN GreedyLatent ELSE SampleLatent(ManualSeed(seed))

\* C21: a request shares nothing mutable with a request served at the same
\* time: the result of a seeded request is the result it has when it is
\* served alone, whatever the other request does (its seed included).
C21_NoSharedMutableState ==
    \A w \in Workers :
        (threads[w].pc = "done" /\ ~IsNone(threads[w].seed)) =>
            /\ threads[w].latents = SoloLatent(Get(threads[w].seed), threads[w].top_p)
            /\ Cat(threads[w].all_logits) =
                   Query(BatchPoints(0, ConcurrentPoints, ConcurrentPoints),
                         SoloLatent(Get(threads[w].seed), threads[w].top_p))

\* C22: the decoder calls of a request are not interleaved with those of
\* another request: between two decoder calls of one request there is no
\* decoder call of a different request.
C22_BatchesNotInterleaved ==
    \A a, b, c \in 1..Len(decoder_log) :
        (a < b /\ b < c /\ decoder_log[a] = decoder_log[c]) =>
            decoder_log[b] = decoder_log[a]

(***************************************************************************)
(* SpecHealth: the service with /health queries.  Handlers are coroutines  *)
(* on the one event loop: a handler runs when no other coroutine holds the *)
(* loop.  generate_occupancy gives the loop up at                          *)
(* `await asyncio.to_thread(...)` for as long as the pipeline runs.        *)
(***************************************************************************)
\* a handler that calls generate_occupancy_field itself holds the event loop
PipelineOnEventLoop == FALSE

\* generate_occupancy_field runs in a thread of asyncio.to_thread
PipelineInWorkerThread == TRUE

\* no coroutine is running between two suspension points
EventLoopFree == pc = "idle" \/ PipelineInWorkerThread

\* the status expression of the health handler
HealthStatus == IF models_loaded THEN "ready" ELSE IF loading THEN "loading" ELSE "error"

\* GET /health; `during` is history: the position of the generation request
\* at the time of the answer
health ==
    /\ load_task # "none"
    /\ EventLoopFree
    /\ health_response' = Some([status       |-> HealthStatus,
                                model_loaded |-> models_loaded,
                                error        |-> error,
                                during       |-> pc])
    /\ UNCHANGED <<request, response, pc, first_run>>
    /\ UNCHANGED <<threads, rng, decoder_log, xcube, trellis, startups>>
    /\ UNCHANGED serverVars
    /\ UNCHANGED pipeVars

NextHealth ==
    \/ startup_event
    \/ load_models
    \/ \E req \in ChunkRequests : generate_occupancy(req)
    \/ gof_gpt
    \/ gof_grid(BatchSize)
    \/ gof_query
    \/ gof_finish
    \/ send_response
    \/ health

SpecHealth == Init /\ [][NextHealth]_vars

WorkerStep ==
    \/ gof_gpt /\ DOMAIN latents'.hot = {}
    \/ \E b \in 1..MaxBatch : gof_grid(b)
    \/ gof_query
    \/ gof_finish

NextLoop ==
    \/ startup_event
    \/ load_models
    \/ \E req \in ChunkRequests : generate_occupancy(req)
    \/ WorkerStep
    \/ send_response

SpecLoopFair == Init /\ [][NextLoop]_vars /\ WF_vars(WorkerStep)

\* the last decoder call raised
DecoderRaised ==
    /\ Len(decoder_calls) > 0
    /\ decoder_calls[Len(decoder_calls)].raised

\* in the loop, every call made so far has returned its logits, and the next
\* call is the one for chunk number Len(decoder_calls) + 1
CallsInChunkOrder ==
    (pc = "query") =>
        /\ Len(all_logits) = Len(decoder_calls)
        /\ i = Len(decoder_calls) * batch_size
        /\ \A k \in 1..Len(decoder_calls) :
              /\ ~decoder_calls[k].raised
              /\ decoder_calls[k].batch[1] = (k - 1) * batch_size

\* the request has left the loop: by a decoder failure, or with a result
\* after one call for every chunk
LoopCompleted ==
    /\ pc = "idle"
    /\ ~IsNone(response)
    /\ \/ DecoderRaised
       \/ /\ IsOk(response)
          /\ Len(decoder_calls) = CeilDiv(num_points, batch_size)
          /\ Len(Cat(all_logits)) = num_points

\* C24: the decoder calls of a request are made one after another in
\* ascending chunk order, each after the previous one has returned; the loop
\* is left only by a decoder failure or after every chunk has been run (no
\* batch is skipped, nothing cancels the loop); and a request that has
\* entered the loop eventually leaves it.
C24_SequentialToCompletion ==
    /\ []CallsInChunkOrder
    /\ [][(pc = "query" /\ pc' # "query") => LoopCompleted']_vars
    /\ (pc = "query") ~> (pc = "idle")

\* a request has completed after three or more decoder calls
C24_Witness ==
    /\ IsOk(response)
    /\ Len(decoder_calls) >= 3
    /\ Len(decoder_calls) = CeilDiv(num_points, batch_size)
    /\ ~DecoderRaised

\* C25: every /health answer reports 'ready' exactly when the models are
\* loaded, 'loading' exactly when they are not loaded and a load is in
\* progress, and 'error' otherwise; and an answer with status 'error' carries
\* an error message (its error field is not null).
C25_HealthStatus ==
    [][health =>
          LET h == Get(health_response')
          IN  /\ (h.status = "ready") <=> models_loaded
              /\ (h.status = "loading") <=> (~models_loaded /\ loading)
              /\ (h.status = "error") <=> (~models_loaded /\ ~loading)
              /\ (h.status = "error") => (h.error # "None")]_vars

(***************************************************************************)
(* SpecRadial: radial colouring on the grids of grid_resolution 1 and 2    *)
(* and on a grid whose axis sizes differ.  As in SpecColor the decoder     *)
(* loop has completed in a single chunk.                                   *)
(***************************************************************************)
RadialGrids == {<<2, 2, 2>>, <<3, 3, 3>>, <<3, 2, 3>>}

RadialRequests == {req \in ColourRequests : req.color_mode = Some("radial")}

InitRadial ==
    /\ engine = "Engine"
    /\ loading = FALSE
    /\ error = "None"
    /\ load_task = "done"
    /\ request \in {Some(req) : req \in RadialRequests}
    /\ response = None
    /\ pc = "query"
    /\ grid_size \in RadialGrids
    /\ num_points = NumPoints(grid_size)
    /\ latents \in ColourLatents(num_points)
    /\ batch_size = num_points
    /\ i = num_points
    /\ all_logits = <<Query(BatchPoints(0, num_points, num_points), latents)>>
    /\ decoder_calls = <<[batch |-> BatchPoints(0, num_points, num_points), raised |-> FALSE]>>
    /\ first_run = None
    /\ ExtInit

SpecRadial == InitRadial /\ [][NextColor]_vars

\* voxel w is the image of voxel v under the reflection that maps index a to
\* top[axis] - a on every axis
Reflected(v, w, top) == \A a \in 1..3 : w[a] = top[a] - v[a]

\* C26 as stated: radial colours are symmetric about the centre of the index
\* range: two occupied voxels v and (n-1) - v (component-wise, n the axis
\* size) get identical colours, whatever else is occupied.
C26_SymmetricAboutIndexCentre ==
    (HasColours /\ RequestMode = "radial") =>
        \A k, m \in 1..Len(Colours) :
            Reflected(Result.occupied_voxels[k], Result.occupied_voxels[m],
                      [a \in 1..3 |-> grid_size[a] - 1])
                => Colours[k] = Colours[m]

\* C26, amended: radial colours are symmetric about the point
\* (n_x/2, n_y/2, n_z/2): two occupied voxels v and n - v (component-wise)
\* get identical colours, whatever else is occupied.
C26_SymmetricAboutHalfSize ==
    (HasColours /\ RequestMode = "radial") =>
        \A k, m \in 1..Len(Colours) :
            Reflected(Result.occupied_voxels[k], Result.occupied_voxels[m], grid_size)
                => Colours[k] = Colours[m]

\* two different occupied voxels v and n - v with the same colour, in a
\* result that has another colour as well
C26_Witness ==
    /\ HasColours
    /\ RequestMode = "radial"
    /\ \E k, m \in 1..Len(Colours) :
          /\ k # m
          /\ Reflected(Result.occupied_voxels[k], Result.occupied_voxels[m], grid_size)
          /\ Colours[k] = Colours[m]
          /\ \E j \in 1..Len(Colours) : Colours[j] # Colours[k]

(***************************************************************************)
(* SpecLoad: model loading at startup in the three servers (Cube3D         *)
(* occupancy, XCube, Trellis).  Each load_models is a coroutine without an *)
(* await: it runs from its guard to its finally clause in one step of the  *)
(* event loop.  A load fails at one of its statements; the references      *)
(* assigned before that statement are set when the except clause starts.   *)
(***************************************************************************)
\* XCube: the statements of the try block that can raise, in program order
XCubeFailures ==
    <<"XCube not available", "Missing checkpoint file", "coarse model failed",
      "coarse model to device failed", "fine model failed", "text encoder failed",
      "clip_preprocess failed">>

\* the state when statement number fail_at raises (Len(XCubeFailures) + 1:
\* no statement raises); fine: the fine checkpoints exist
XCubeTry(st, fail_at, fine) ==
    [st EXCEPT !.loading = TRUE,
               !.coarse_model = IF fail_at > 3 THEN "Model" ELSE "None",
               !.fine_model = IF fine /\ fail_at > 5 THEN "Model" ELSE "None",
               !.text_encoder = IF fail_at > 6 THEN "Model" ELSE "None",
               !.clip_preprocess_fn = IF fail_at > 7 THEN "AutoProcessor" ELSE "None",
               !.error = IF fail_at > 7 THEN "None" ELSE st.error]

\* an except clause that records the message and keeps what was loaded
XCubeExceptKeepsModels(st, msg) ==
    [st EXCEPT !.error = msg]

\* XCube: `except Exception as e`
XCubeExcept(st, msg) ==
    [st EXCEPT !.error = msg,
               !.coarse_model = "None",
               !.fine_model = "None",
               !.text_encoder = "None"]

\* XCube: ServerState.models_loaded
XCubeModelsLoaded(st) == st.coarse_model # "None" /\ st.text_encoder # "None"

\* XCube: startup_event
xcube_startup_event ==
    /\ xcube.load_task = "none"
    /\ xcube' = [xcube EXCEPT !.load_task = "pending"]
    /\ UNCHANGED <<request, response, pc, first_run>>
    /\ UNCHANGED <<health_response, threads, rng, decoder_log, trellis, startups>>
    /\ UNCHANGED serverVars
    /\ UNCHANGED pipeVars

\* XCube: load_models
xcube_load_models ==
    /\ xcube.load_task = "pending"
    /\ IF xcube.loading \/ XCubeModelsLoaded(xcube)
       THEN xcube' = [xcube EXCEPT !.load_task = "done"]
       ELSE \E fail_at \in 1..(Len(XCubeFailures) + 1), fine \in BOOLEAN :
               LET tried  == XCubeTry(xcube, fail_at, fine)
                   caught == IF fail_at <= Len(XCubeFailures)
                             THEN XCubeExcept(tried, XCubeFailures[fail_at])
                             ELSE tried
               IN  xcube' = [caught EXCEPT !.loading = FALSE, !.load_task = "done"]
    /\ UNCHANGED <<request, response, pc, first_run>>
    /\ UNCHANGED <<health_response, threads, rng, decoder_log, trellis, startups>>
    /\ UNCHANGED serverVars
    /\ UNCHANGED pipeVars

\* Trellis: the statements of the try block that can raise, in program order
TrellisFailures ==
    <<"Trellis not available", "from_pretrained failed",
      "Pipeline from_pretrained returned None", "patching the pipeline failed">>

\* the state when statement number fail_at raises; from_pretrained has
\* assigned state.pipeline when a later statement raises
TrellisTry(st, fail_at) ==
    [st EXCEPT !.loading = TRUE,
               !.pipeline = IF fail_at > 3 THEN "Pipeline" ELSE "None",
               !.error = IF fail_at > 4 THEN "None" ELSE st.error]

\* Trellis: `except Exception as e`
TrellisExcept(st, msg) ==
    [st EXCEPT !.error = msg, !.pipeline = "None"]

\* Trellis: ServerState.models_loaded
TrellisModelsLoaded(st) == st.pipeline # "None"

\* Trellis: startup_event
trellis_startup_event ==
    /\ trellis.load_task = "none"
    /\ trellis' = [trellis EXCEPT !.load_task = "pending"]
    /\ UNCHANGED <<request, response, pc, first_run>>
    /\ UNCHANGED <<health_response, threads, rng, decoder_log, xcube, startups>>
    /\ UNCHANGED serverVars
    /\ UNCHANGED pipeVars

\* Trellis: load_models
trellis_load_models ==
    /\ trellis.load_task = "pending"
    /\ IF trellis.loading \/ TrellisModelsLoaded(trellis)
       THEN trellis' = [trellis EXCEPT !.load_task = "done"]
       ELSE \E fail_at \in 1..(Len(TrellisFailures) + 1) :
               LET tried  == TrellisTry(trellis, fail_at)
                   caught == IF fail_at <= Len(TrellisFailures)
                             THEN TrellisExcept(tried, TrellisFailures[fail_at])
                             ELSE tried
               IN  trellis' = [caught EXCEPT !.loading = FALSE, !.load_task = "done"]
    /\ UNCHANGED <<request, response, pc, first_run>>
    /\ UNCHANGED <<health_response, threads, rng, decoder_log, xcube, startups>>
    /\ UNCHANGED serverVars
    /\ UNCHANGED pipeVars

NextLoad ==
    \/ startup_event
    \/ load_models
    \/ xcube_startup_event
    \/ xcube_load_models
    \/ trellis_startup_event
    \/ trellis_load_models

SpecLoad == Init /\ [][NextLoad]_vars

\* C27: when load_models has finished, loading is False and the server is in
\* one of two states: the models are loaded and error is None, or every
\* model reference is None (engine; pipeline; coarse_model, fine_model and
\* text_encoder) and error holds the failure message.  This holds in each of
\* the three servers.
C27_LoadedOrCleared ==
    /\ (load_task = "done") =>
          /\ ~loading
          /\ \/ models_loaded /\ error = "None"
             \/ engine = "None" /\ error # "None"
    /\ (xcube.load_task = "done") =>
          /\ ~xcube.loading
          /\ \/ XCubeModelsLoaded(xcube) /\ xcube.error = "None"
             \/ /\ xcube.coarse_model = "None"
                /\ xcube.fine_model = "None"
                /\ xcube.text_encoder = "None"
                /\ xcube.error # "None"
    /\ (trellis.load_task = "done") =>
          /\ ~trellis.loading
          /\ \/ TrellisModelsLoaded(trellis) /\ trellis.error = "None"
             \/ trellis.pipeline = "None" /\ trellis.error # "None"

\* all three loads have failed; the XCube load failed after the coarse model
\* had been assigned, the Trellis load after the pipeline had been assigned
C27_Witness ==
    /\ load_task = "done" /\ engine = "None" /\ error = "load failed"
    /\ xcube.load_task = "done"
    /\ xcube.error = "text encoder failed"
    /\ xcube.coarse_model = "None"
    /\ trellis.load_task = "done"
    /\ trellis.error = "patching the pipeline failed"
    /\ trellis.pipeline = "None"

\* all three loads have succeeded, the XCube load without a fine model
C27_WitnessLoaded ==
    /\ load_task = "done" /\ models_loaded /\ error = "None"
    /\ xcube.load_task = "done"
    /\ XCubeModelsLoaded(xcube)
    /\ xcube.fine_model = "None"
    /\ xcube.error = "None"
    /\ trellis.load_task = "done"
    /\ TrellisModelsLoaded(trellis)

(***************************************************************************)
(* SpecReload: the service in a process in which the startup event occurs  *)
(* again (the application object is started more than once), so that       *)
(* load_models is called in states a first call has left behind.           *)
(***************************************************************************)
\* number of startup events after the first
MaxRestarts == 1

\* startup_event, once more: asyncio.create_task(load_models())
startup_event_again ==
    /\ load_task = "done"
    /\ Len(startups) < MaxRestarts
    /\ load_task' = "pending"
    /\ startups' = Append(startups, engine)
    /\ UNCHANGED <<engine, loading, error, request, response, pc, first_run>>
    /\ UNCHANGED <<health_response, threads, rng, decoder_log, xcube, trellis>>
    /\ UNCHANGED pipeVars

NextReload ==
    \/ startup_event
    \/ load_models
    \/ startup_event_again
    \/ \E req \in ChunkRequests : generate_occupancy(req)
    \/ gof_gpt
    \/ gof_grid(BatchSize)
    \/ gof_query
    \/ gof_finish
    \/ send_response

SpecReload == Init /\ [][NextReload]_vars

\* C28: once the models are loaded they stay loaded, and they stay the same
\* models, in every later step; and a call of load_models made while a load
\* is in progress or with the models loaded changes nothing in ServerState.
C28_LoadedStaysLoaded ==
    /\ [][models_loaded => (models_loaded' /\ engine' = engine)]_vars
    /\ [][(load_models /\ (loading \/ models_loaded)) =>
              UNCHANGED <<engine, loading, error>>]_vars

\* load_models has been called a second time, with the models loaded, and
\* has returned
C28_Witness ==
    /\ Len(startups) = 1
    /\ startups[1] = "Engine"
    /\ load_task = "done"
    /\ models_loaded
    /\ error = "None"

\* the 503 of generate_occupancy for a load in progress
StillLoading503 == HttpError(503, "Models still loading - try again shortly", "")

\* C29: between the steps of the event loop state.loading is never True, so
\* no handler sees it: no /health answer has status 'loading' and no
\* /generate_occupancy answer is the 'Models still loading' 503.
C29_LoadingNeverObserved ==
    /\ ~loading
    /\ ~IsNone(health_response) => Get(health_response).status # "loading"
    /\ response # StillLoading503

\* the load has run and handlers have run after it: /health has answered
\* 'ready' and a generation request has been answered with a result
C29_Witness ==
    /\ load_task = "done"
    /\ models_loaded
    /\ ~IsNone(health_response)
    /\ Get(health_response).status = "ready"
    /\ Get(health_response).during = "idle"
    /\ IsOk(response)

\* the load has run and has failed
LoadFailed == load_task = "done" /\ ~models_loaded

\* C30: a failed load is not retried: load_models is started once, and once
\* a load has failed the models stay unloaded and the error stays the same,
\* every /health answer from then on has status 'error' (with the load
\* error), and every /generate_occupancy request from then on is answered
\* 503 with the load error.
C30_FailedLoadIsFinal ==
    /\ [][(load_task # "none" => load_task' # "none")
          /\ (load_task = "done" => load_task' = "done")]_vars
    /\ [][LoadFailed => (LoadFailed' /\ error' = error /\ error # "None")]_vars
    /\ [][(LoadFailed /\ health) =>
              /\ Get(health_response').status = "error"
              /\ Get(health_response').error = error
              /\ ~Get(health_response').model_loaded]_vars
    /\ [][(LoadFailed /\ request' # request /\ ~IsNone(request')) =>
              response' = HttpError(503, "Models failed to load: ", error)]_vars

\* after a failed load /health has answered 'error' with the load error and
\* a request has been refused with it
C30_Witness ==
    /\ LoadFailed
    /\ ~IsNone(health_response)
    /\ Get(health_response).status = "error"
    /\ Get(health_response).error = "load failed"
    /\ ~IsNone(request)
    /\ response = HttpError(503, "Models failed to load: ", "load failed")
====
